---- MODULE Spec2Model ----
(***************************************************************************)
(* Union-find with union by rank and path compression (union_find.rs).     *)
(* The structure is a map from element to Node(rank, parent).  Each action *)
(* is one call of add, union or find; a lookup of an absent key is the     *)
(* panic of Option::unwrap, after which the program makes no further call. *)
(***************************************************************************)
EXTENDS Integers, FiniteSets, Sequences, TLC

\* Number of distinct element identifiers the callers draw from.
MaxElem == 3

Elems == 1..MaxElem

\* Number of add calls on an already present element the callers make.
MaxReadd == 1

\* The value recorded when a call returns nothing.
NoRet == 0

VARIABLES disjoint_sets, pc, last, pre, readds

vars == <<disjoint_sets, pc, last, pre, readds>>

\* Node::new(rank, parent)
Node(rank, parent) == [rank |-> rank, parent |-> parent]

\* HashMap::new()
EmptyMap == [e \in {} |-> Node(0, 0)]

\* HashMap::insert(item, node)
Insert(ds, item, node) ==
    [e \in (DOMAIN ds) \cup {item} |-> IF e = item THEN node ELSE ds[e]]

\* add with the arguments of Node::new swapped.
add_swappedArgs(ds, item) == Insert(ds, item, Node(item, 0))

\* add through entry(item).or_insert: a present element keeps its record.
add_ifAbsent(ds, item) ==
    IF item \in DOMAIN ds THEN ds ELSE Insert(ds, item, Node(0, item))

\* UnionFind::add: blind insert of a rank-0 node that is its own parent.
add(ds, item) == Insert(ds, item, Node(0, item))

RECURSIVE find(_, _)

\* find that returns the parent read before the recursive call.
find_staleParent(ds, x) ==
    IF x \notin DOMAIN ds
    THEN [ds |-> ds, ret |-> NoRet, ok |-> FALSE]
    ELSE IF ds[x].parent # x
         THEN LET r == find(ds, ds[x].parent)
              IN  IF ~r.ok
                  THEN [ds |-> r.ds, ret |-> NoRet, ok |-> FALSE]
                  ELSE [ds |-> [r.ds EXCEPT ![x].parent = r.ret],
                        ret |-> ds[x].parent, ok |-> TRUE]
         ELSE [ds |-> ds, ret |-> ds[x].parent, ok |-> TRUE]

\* find without path compression: the root is returned, no pointer is set.
find_noCompression(ds, x) ==
    IF x \notin DOMAIN ds
    THEN [ds |-> ds, ret |-> NoRet, ok |-> FALSE]
    ELSE IF ds[x].parent # x
         THEN LET r == find(ds, ds[x].parent)
              IN  IF ~r.ok
                  THEN [ds |-> r.ds, ret |-> NoRet, ok |-> FALSE]
                  ELSE [ds |-> r.ds, ret |-> r.ret, ok |-> TRUE]
         ELSE [ds |-> ds, ret |-> ds[x].parent, ok |-> TRUE]

\* find whose compression rebuilds the node as Node::new(0, root).
find_resetNode(ds, x) ==
    IF x \notin DOMAIN ds
    THEN [ds |-> ds, ret |-> NoRet, ok |-> FALSE]
    ELSE IF ds[x].parent # x
         THEN LET r == find(ds, ds[x].parent)
              IN  IF ~r.ok
                  THEN [ds |-> r.ds, ret |-> NoRet, ok |-> FALSE]
                  ELSE LET ds2 == [r.ds EXCEPT ![x] = Node(0, r.ret)]
                       IN  [ds |-> ds2, ret |-> ds2[x].parent, ok |-> TRUE]
         ELSE [ds |-> ds, ret |-> ds[x].parent, ok |-> TRUE]

\* find that looks the key up with entry(x).or_insert(Node::new(0, x)).
find_orInsert(ds, x) ==
    IF x \notin DOMAIN ds
    THEN [ds |-> Insert(ds, x, Node(0, x)), ret |-> x, ok |-> TRUE]
    ELSE IF ds[x].parent # x
         THEN LET r == find(ds, ds[x].parent)
              IN  IF ~r.ok
                  THEN [ds |-> r.ds, ret |-> NoRet, ok |-> FALSE]
                  ELSE LET ds2 == [r.ds EXCEPT ![x].parent = r.ret]
                       IN  [ds |-> ds2, ret |-> ds2[x].parent, ok |-> TRUE]
         ELSE [ds |-> ds, ret |-> ds[x].parent, ok |-> TRUE]

\* find whose compression stores x itself instead of the root found.
find_selfParent(ds, x) ==
    IF x \notin DOMAIN ds
    THEN [ds |-> ds, ret |-> NoRet, ok |-> FALSE]
    ELSE IF ds[x].parent # x
         THEN LET r == find(ds, ds[x].parent)
              IN  IF ~r.ok
                  THEN [ds |-> r.ds, ret |-> NoRet, ok |-> FALSE]
                  ELSE LET ds2 == [r.ds EXCEPT ![x].parent = x]
                       IN  [ds |-> ds2, ret |-> ds2[x].parent, ok |-> TRUE]
         ELSE [ds |-> ds, ret |-> ds[x].parent, ok |-> TRUE]

\* UnionFind::find: the map after the call, the value returned and whether
\* the call returned at all (ok = FALSE: unwrap on a missing key panicked).
find(ds, x) ==
    IF x \notin DOMAIN ds
    THEN [ds |-> ds, ret |-> NoRet, ok |-> FALSE]
    ELSE IF ds[x].parent # x
         THEN LET r == find(ds, ds[x].parent)
              IN  IF ~r.ok
                  THEN [ds |-> r.ds, ret |-> NoRet, ok |-> FALSE]
                  ELSE LET ds2 == [r.ds EXCEPT ![x].parent = r.ret]
                       IN  [ds |-> ds2, ret |-> ds2[x].parent, ok |-> TRUE]
         ELSE [ds |-> ds, ret |-> ds[x].parent, ok |-> TRUE]

\* union whose equal-rank branch raises the rank but forgets to attach.
union_skipAttach(ds, x, y) ==
    LET fx == find(ds, x)
    IN  IF ~fx.ok
        THEN [ds |-> fx.ds, ok |-> FALSE]
        ELSE LET fy == find(fx.ds, y)
             IN  IF ~fy.ok
                 THEN [ds |-> fy.ds, ok |-> FALSE]
                 ELSE LET parent_x == fx.ret
                          parent_y == fy.ret
                          d == fy.ds
                      IN  IF parent_x = parent_y
                          THEN [ds |-> d, ok |-> TRUE]
                          ELSE IF d[parent_x].rank > d[parent_y].rank
                          THEN [ds |-> [d EXCEPT ![parent_y].parent = parent_x],
                                ok |-> TRUE]
                          ELSE IF d[parent_x].rank < d[parent_y].rank
                          THEN [ds |-> [d EXCEPT ![parent_x].parent = parent_y],
                                ok |-> TRUE]
                          ELSE [ds |-> [d EXCEPT ![parent_x].rank = @ + 1],
                                ok |-> TRUE]

\* union that attaches the argument y itself instead of its root.
union_attachArg(ds, x, y) ==
    LET fx == find(ds, x)
    IN  IF ~fx.ok
        THEN [ds |-> fx.ds, ok |-> FALSE]
        ELSE LET fy == find(fx.ds, y)
             IN  IF ~fy.ok
                 THEN [ds |-> fy.ds, ok |-> FALSE]
                 ELSE LET parent_x == fx.ret
                          parent_y == fy.ret
                          d == fy.ds
                      IN  IF parent_x = parent_y
                          THEN [ds |-> d, ok |-> TRUE]
                          ELSE IF d[parent_x].rank > d[parent_y].rank
                          THEN [ds |-> [d EXCEPT ![y].parent = parent_x],
                                ok |-> TRUE]
                          ELSE IF d[parent_x].rank < d[parent_y].rank
                          THEN [ds |-> [d EXCEPT ![parent_x].parent = parent_y],
                                ok |-> TRUE]
                          ELSE [ds |-> [d EXCEPT ![y].parent = parent_x,
                                                 ![parent_x].rank = @ + 1],
                                ok |-> TRUE]

\* union that links the arguments directly, without looking up their roots.
union_noFind(ds, x, y) ==
    IF x \notin DOMAIN ds \/ y \notin DOMAIN ds
    THEN [ds |-> ds, ok |-> FALSE]
    ELSE IF x = y
    THEN [ds |-> ds, ok |-> TRUE]
    ELSE IF ds[x].rank > ds[y].rank
    THEN [ds |-> [ds EXCEPT ![y].parent = x], ok |-> TRUE]
    ELSE IF ds[x].rank < ds[y].rank
    THEN [ds |-> [ds EXCEPT ![x].parent = y], ok |-> TRUE]
    ELSE [ds |-> [ds EXCEPT ![y].parent = x, ![x].rank = @ + 1], ok |-> TRUE]

\* union without the early return on equal roots.
union_noEarlyReturn(ds, x, y) ==
    LET fx == find(ds, x)
    IN  IF ~fx.ok
        THEN [ds |-> fx.ds, ok |-> FALSE]
        ELSE LET fy == find(fx.ds, y)
             IN  IF ~fy.ok
                 THEN [ds |-> fy.ds, ok |-> FALSE]
                 ELSE LET parent_x == fx.ret
                          parent_y == fy.ret
                          d == fy.ds
                      IN  IF d[parent_x].rank > d[parent_y].rank
                          THEN [ds |-> [d EXCEPT ![parent_y].parent = parent_x],
                                ok |-> TRUE]
                          ELSE IF d[parent_x].rank < d[parent_y].rank
                          THEN [ds |-> [d EXCEPT ![parent_x].parent = parent_y],
                                ok |-> TRUE]
                          ELSE [ds |-> [d EXCEPT ![parent_y].parent = parent_x,
                                                 ![parent_x].rank = @ + 1],
                                ok |-> TRUE]

\* union without the branch for a lower-ranked root of x.
union_dropLess(ds, x, y) ==
    LET fx == find(ds, x)
    IN  IF ~fx.ok
        THEN [ds |-> fx.ds, ok |-> FALSE]
        ELSE LET fy == find(fx.ds, y)
             IN  IF ~fy.ok
                 THEN [ds |-> fy.ds, ok |-> FALSE]
                 ELSE LET parent_x == fx.ret
                          parent_y == fy.ret
                          d == fy.ds
                      IN  IF parent_x = parent_y
                          THEN [ds |-> d, ok |-> TRUE]
                          ELSE IF d[parent_x].rank > d[parent_y].rank
                          THEN [ds |-> [d EXCEPT ![parent_y].parent = parent_x],
                                ok |-> TRUE]
                          ELSE IF d[parent_x].rank < d[parent_y].rank
                          THEN [ds |-> d, ok |-> TRUE]
                          ELSE [ds |-> [d EXCEPT ![parent_y].parent = parent_x,
                                                 ![parent_x].rank = @ + 1],
                                ok |-> TRUE]

\* union that raises the new root's rank in every branch.
union_bumpAlways(ds, x, y) ==
    LET fx == find(ds, x)
    IN  IF ~fx.ok
        THEN [ds |-> fx.ds, ok |-> FALSE]
        ELSE LET fy == find(fx.ds, y)
             IN  IF ~fy.ok
                 THEN [ds |-> fy.ds, ok |-> FALSE]
                 ELSE LET parent_x == fx.ret
                          parent_y == fy.ret
                          d == fy.ds
                      IN  IF parent_x = parent_y
                          THEN [ds |-> d, ok |-> TRUE]
                          ELSE IF d[parent_x].rank > d[parent_y].rank
                          THEN [ds |-> [d EXCEPT ![parent_y].parent = parent_x,
                                                 ![parent_x].rank = @ + 1],
                                ok |-> TRUE]
                          ELSE IF d[parent_x].rank < d[parent_y].rank
                          THEN [ds |-> [d EXCEPT ![parent_x].parent = parent_y,
                                                 ![parent_y].rank = @ + 1],
                                ok |-> TRUE]
                          ELSE [ds |-> [d EXCEPT ![parent_y].parent = parent_x,
                                                 ![parent_x].rank = @ + 1],
                                ok |-> TRUE]

\* union that attaches the higher-ranked root under the lower-ranked one.
union_swapGreater(ds, x, y) ==
    LET fx == find(ds, x)
    IN  IF ~fx.ok
        THEN [ds |-> fx.ds, ok |-> FALSE]
        ELSE LET fy == find(fx.ds, y)
             IN  IF ~fy.ok
                 THEN [ds |-> fy.ds, ok |-> FALSE]
                 ELSE LET parent_x == fx.ret
                          parent_y == fy.ret
                          d == fy.ds
                      IN  IF parent_x = parent_y
                          THEN [ds |-> d, ok |-> TRUE]
                          ELSE IF d[parent_x].rank > d[parent_y].rank
                          THEN [ds |-> [d EXCEPT ![parent_x].parent = parent_y],
                                ok |-> TRUE]
                          ELSE IF d[parent_x].rank < d[parent_y].rank
                          THEN [ds |-> [d EXCEPT ![parent_y].parent = parent_x],
                                ok |-> TRUE]
                          ELSE [ds |-> [d EXCEPT ![parent_y].parent = parent_x,
                                                 ![parent_x].rank = @ + 1],
                                ok |-> TRUE]

\* union whose equal-rank branch attaches but leaves the rank as it was.
union_noRankBump(ds, x, y) ==
    LET fx == find(ds, x)
    IN  IF ~fx.ok
        THEN [ds |-> fx.ds, ok |-> FALSE]
        ELSE LET fy == find(fx.ds, y)
             IN  IF ~fy.ok
                 THEN [ds |-> fy.ds, ok |-> FALSE]
                 ELSE LET parent_x == fx.ret
                          parent_y == fy.ret
                          d == fy.ds
                      IN  IF parent_x = parent_y
                          THEN [ds |-> d, ok |-> TRUE]
                          ELSE IF d[parent_x].rank > d[parent_y].rank
                          THEN [ds |-> [d EXCEPT ![parent_y].parent = parent_x],
                                ok |-> TRUE]
                          ELSE IF d[parent_x].rank < d[parent_y].rank
                          THEN [ds |-> [d EXCEPT ![parent_x].parent = parent_y],
                                ok |-> TRUE]
                          ELSE [ds |-> [d EXCEPT ![parent_y].parent = parent_x],
                                ok |-> TRUE]

\* UnionFind::union: the map after the call and whether the call returned.
union(ds, x, y) ==
    LET fx == find(ds, x)
    IN  IF ~fx.ok
        THEN [ds |-> fx.ds, ok |-> FALSE]
        ELSE LET fy == find(fx.ds, y)
             IN  IF ~fy.ok
                 THEN [ds |-> fy.ds, ok |-> FALSE]
                 ELSE LET parent_x == fx.ret
                          parent_y == fy.ret
                          d == fy.ds
                      IN  IF parent_x = parent_y
                          THEN [ds |-> d, ok |-> TRUE]
                          ELSE IF d[parent_x].rank > d[parent_y].rank
                          THEN [ds |-> [d EXCEPT ![parent_y].parent = parent_x],
                                ok |-> TRUE]
                          ELSE IF d[parent_x].rank < d[parent_y].rank
                          THEN [ds |-> [d EXCEPT ![parent_x].parent = parent_y],
                                ok |-> TRUE]
                          ELSE [ds |-> [d EXCEPT ![parent_y].parent = parent_x,
                                                 ![parent_x].rank = @ + 1],
                                ok |-> TRUE]

\* The call just made: its name, arguments and returned value.
Call(op, x, y, ret) == [op |-> op, x |-> x, y |-> y, ret |-> ret]

\* UnionFind::new()
Init ==
    /\ disjoint_sets = EmptyMap
    /\ pc = "running"
    /\ last = Call("new", NoRet, NoRet, NoRet)
    /\ pre = EmptyMap
    /\ readds = 0

\* A call of add(item).
Add(item) ==
    /\ pc = "running"
    /\ item \in DOMAIN disjoint_sets => readds < MaxReadd
    /\ readds' = IF item \in DOMAIN disjoint_sets THEN readds + 1 ELSE readds
    /\ disjoint_sets' = add(disjoint_sets, item)
    /\ pc' = "running"
    /\ last' = Call("add", item, NoRet, NoRet)
    /\ pre' = disjoint_sets

\* A call of union(x, y).
Union(x, y) ==
    /\ pc = "running"
    /\ LET u == union(disjoint_sets, x, y)
       IN  /\ disjoint_sets' = u.ds
           /\ pc' = IF u.ok THEN "running" ELSE "panicked"
    /\ last' = Call("union", x, y, NoRet)
    /\ pre' = disjoint_sets
    /\ UNCHANGED readds

\* A call of find(x).
Find(x) ==
    /\ pc = "running"
    /\ LET f == find(disjoint_sets, x)
       IN  /\ disjoint_sets' = f.ds
           /\ pc' = IF f.ok THEN "running" ELSE "panicked"
           /\ last' = Call("find", x, NoRet, f.ret)
    /\ pre' = disjoint_sets
    /\ UNCHANGED readds

Next ==
    \/ \E item \in Elems : Add(item)
    \/ \E x \in Elems, y \in Elems : Union(x, y)
    \/ \E x \in Elems : Find(x)

Spec == Init /\ [][Next]_vars

\* Number of element identifiers of the callers that never add an element
\* twice.
MaxFresh == 5

FreshElems == 1..MaxFresh

\* A call of add(item) by a caller that adds the identifiers in ascending
\* order, as the loop of main does, each one once.
FreshAdd(item) ==
    /\ item = Cardinality(DOMAIN disjoint_sets) + 1
    /\ item \notin DOMAIN disjoint_sets
    /\ Add(item)

FreshNext ==
    \/ \E item \in FreshElems : FreshAdd(item)
    \/ \E x \in FreshElems, y \in FreshElems : Union(x, y)
    \/ \E x \in FreshElems : Find(x)

FreshSpec == Init /\ [][FreshNext]_vars

\* main: the upper end of the range of elements it adds.
ScenarioMax == 10

ScenarioElems == 1..ScenarioMax

\* main, the loop of adds: each element of the range is added once (the
\* order of the iterations is left open).
ScenarioAdd(i) ==
    /\ last.op \in {"new", "add"}
    /\ i \notin DOMAIN disjoint_sets
    /\ Add(i)

\* main, the three unions in program order, once every element is added.
ScenarioUnion ==
    /\ DOMAIN disjoint_sets = ScenarioElems
    /\ \/ last.op = "add" /\ Union(1, 2)
       \/ last = Call("union", 1, 2, NoRet) /\ Union(3, 5)
       \/ last = Call("union", 3, 5, NoRet) /\ Union(3, 6)

\* main, the three printed finds in program order.
ScenarioFind ==
    \/ last = Call("union", 3, 6, NoRet) /\ Find(5)
    \/ last.op = "find" /\ last.x = 5 /\ Find(6)
    \/ last.op = "find" /\ last.x = 6 /\ Find(1)

ScenarioNext ==
    \/ \E i \in ScenarioElems : ScenarioAdd(i)
    \/ ScenarioUnion
    \/ ScenarioFind

ScenarioSpec == Init /\ [][ScenarioNext]_vars

----------------------------------------------------------------------------
\* Vocabulary of the properties.

\* The element reached from e after n parent hops.
RECURSIVE Hop(_, _, _)
Hop(ds, e, n) == IF n = 0 THEN e ELSE Hop(ds, ds[e].parent, n - 1)

\* The elements on the parent path from e, e included, within n hops.
PathWithin(ds, e, n) == {Hop(ds, e, k) : k \in 0..n}

\* The parent path of e in a forest: at most |ds| - 1 hops reach the root.
Path(ds, e) == PathWithin(ds, e, Cardinality(DOMAIN ds))

\* The self-parented elements on the parent path of e.
RootsOf(ds, e) == {r \in Path(ds, e) : ds[r].parent = r}

\* The root of e's tree (defined when the path of e ends in a root).
Root(ds, e) == CHOOSE r \in RootsOf(ds, e) : TRUE

\* a and b are in the same set of the partition the forest represents.
SameSet(ds, a, b) == Root(ds, a) = Root(ds, b)

\* find(a) == find(b), the two calls made one after the other on ds.
SameRep(ds, a, b) ==
    LET fa == find(ds, a)
        fb == find(fa.ds, b)
    IN  fa.ok /\ fb.ok /\ fa.ret = fb.ret

\* The last call was add(e) on an element e that was already present.
Readd(e) == last.op = "add" /\ last.x = e /\ e \in DOMAIN pre

\* The last call returned normally.
Returned(op) == last.op = op /\ pc = "running"

----------------------------------------------------------------------------
\* C1. Union convergence: right after union(x, y) returns, find(x) and
\* find(y), called one after the other, return the same representative.
UnionConvergence ==
    Returned("union") =>
        LET fx == find(disjoint_sets, last.x)
            fy == find(fx.ds, last.y)
        IN  fx.ok /\ fy.ok /\ fx.ret = fy.ret

\* A union of two distinct sets of equal root rank, x not a root, returned.
UnionConvergenceWitness ==
    /\ Returned("union")
    /\ ~SameSet(pre, last.x, last.y)
    /\ pre[last.x].parent # last.x
    /\ pre[Root(pre, last.x)].rank = pre[Root(pre, last.y)].rank

\* C2. union(x, y) merges exactly the sets of x and y: two elements share
\* a set afterwards iff they did before or one was in x's set and the
\* other in y's set; no element appears or disappears.
UnionMergesExactly ==
    Returned("union") =>
        /\ DOMAIN disjoint_sets = DOMAIN pre
        /\ \A a \in DOMAIN pre, b \in DOMAIN pre :
              SameSet(disjoint_sets, a, b) <=>
                 \/ SameSet(pre, a, b)
                 \/ SameSet(pre, a, last.x) /\ SameSet(pre, b, last.y)
                 \/ SameSet(pre, a, last.y) /\ SameSet(pre, b, last.x)

\* A union of two distinct sets returned while a third set exists.
UnionMergesExactlyWitness ==
    /\ Returned("union")
    /\ ~SameSet(pre, last.x, last.y)
    /\ \E c \in DOMAIN pre :
          ~SameSet(pre, c, last.x) /\ ~SameSet(pre, c, last.y)

\* C3. find(e) returns the root of e's tree: the one self-parented element
\* on the parent path of e in the map the call started from.
FindReturnsRoot ==
    Returned("find") =>
        /\ last.ret \in DOMAIN pre
        /\ RootsOf(pre, last.x) = {last.ret}

\* A find of an element two or more hops below its root returned.
FindReturnsRootWitness ==
    /\ Returned("find")
    /\ pre[last.x].parent # last.x
    /\ pre[pre[last.x].parent].parent # pre[last.x].parent

\* C4. Idempotence of find: after find(e) every element of the path it
\* walked points at the returned representative, and a further find(e)
\* returns the same representative and changes no record.
FindIdempotent ==
    Returned("find") =>
        /\ \A p \in Path(pre, last.x) : disjoint_sets[p].parent = last.ret
        /\ LET again == find(disjoint_sets, last.x)
           IN  /\ again.ok
               /\ again.ret = last.ret
               /\ again.ds = disjoint_sets

\* A find that compressed a path of two or more hops returned.
FindIdempotentWitness ==
    /\ Returned("find")
    /\ pre[last.x].parent # last.x
    /\ pre[pre[last.x].parent].parent # pre[last.x].parent
    /\ disjoint_sets # pre

\* C5. Forest invariant: every parent pointer refers to a present element,
\* every parent path reaches a self-parented element, and the only cycles
\* of the parent graph are the self-loops of roots.
ForestInvariant ==
    /\ \A e \in DOMAIN disjoint_sets :
          disjoint_sets[e].parent \in DOMAIN disjoint_sets
    /\ \A e \in DOMAIN disjoint_sets :
          /\ RootsOf(disjoint_sets, e) # {}
          /\ \A k \in 1..Cardinality(DOMAIN disjoint_sets) :
                Hop(disjoint_sets, e, k) = e => disjoint_sets[e].parent = e

\* A forest with a tree of height two: an element two hops below its root.
ForestInvariantWitness ==
    \E e \in DOMAIN disjoint_sets :
        Cardinality(Path(disjoint_sets, e)) = 3

\* C6 as stated. Over any call, add included: a present element stays
\* present and two elements with find(a) == find(b) keep it.
NeverRemovedNeverSplit ==
    /\ DOMAIN pre \subseteq DOMAIN disjoint_sets
    /\ \A a \in DOMAIN pre, b \in DOMAIN pre :
          SameRep(pre, a, b) => SameRep(disjoint_sets, a, b)

\* C6 as amended. A present element stays present over every call, and
\* find(a) == find(b) is kept by every call other than an add of an
\* already present element that is not the root of its tree.
NeverSplitButByReadd ==
    /\ DOMAIN pre \subseteq DOMAIN disjoint_sets
    /\ (\A e \in DOMAIN pre : Readd(e) => pre[e].parent = e) =>
          \A a \in DOMAIN pre, b \in DOMAIN pre :
              SameRep(pre, a, b) => SameRep(disjoint_sets, a, b)

\* An add of the root of a set of two elements left the two with one
\* representative.
NeverSplitButByReaddWitness ==
    \E e \in DOMAIN pre, c \in DOMAIN pre :
        /\ Readd(e)
        /\ pre[e].parent = e
        /\ c # e /\ pre[c].parent = e
        /\ SameRep(disjoint_sets, c, e)

\* C7 as stated. Over any call, add included, no rank of a present
\* element decreases.
RankNeverDecreases ==
    \A e \in DOMAIN pre :
        /\ e \in DOMAIN disjoint_sets
        /\ disjoint_sets[e].rank >= pre[e].rank

\* C7 as amended. No rank of a present element decreases over a call,
\* except the rank of the element handed to add while already present.
RankNeverDecreasesButByReadd ==
    \A e \in DOMAIN pre :
        /\ e \in DOMAIN disjoint_sets
        /\ ~Readd(e) => disjoint_sets[e].rank >= pre[e].rank

\* A union raised a root's rank from 1 to 2 next to a non-root of rank 1.
RankNeverDecreasesButByReaddWitness ==
    /\ Returned("union")
    /\ \E r \in DOMAIN pre, e \in DOMAIN pre :
          /\ pre[r].rank = 1 /\ disjoint_sets[r].rank = 2
          /\ disjoint_sets[e].parent = r /\ disjoint_sets[e].rank = 1

\* C8. No-op on same set: a union(x, y) of two elements of one set changes
\* no rank, points every element on the paths of x and y at their root and
\* leaves every other record as it was.
UnionSameSetNoOp ==
    (Returned("union") /\ SameRep(pre, last.x, last.y)) =>
        LET root == Root(pre, last.x)
            onPaths == Path(pre, last.x) \cup Path(pre, last.y)
        IN  /\ DOMAIN disjoint_sets = DOMAIN pre
            /\ \A e \in DOMAIN pre :
                  /\ disjoint_sets[e].rank = pre[e].rank
                  /\ e \in onPaths => disjoint_sets[e].parent = root
                  /\ e \notin onPaths => disjoint_sets[e] = pre[e]
            /\ disjoint_sets[root] = pre[root]

\* A union of two distinct elements of one set compressed a path.
UnionSameSetNoOpWitness ==
    /\ Returned("union")
    /\ last.x # last.y
    /\ SameRep(pre, last.x, last.y)
    /\ disjoint_sets # pre

\* C9. A find or union that names an absent element panics: it returns no
\* representative and inserts no record.
AbsentElementPanics ==
    (\/ last.op = "find" /\ last.x \notin DOMAIN pre
     \/ last.op = "union" /\ (last.x \notin DOMAIN pre \/ last.y \notin DOMAIN pre))
    => /\ pc = "panicked"
       /\ last.ret = NoRet
       /\ DOMAIN disjoint_sets = DOMAIN pre

\* A union of a present x with an absent y panicked.
AbsentElementPanicsWitness ==
    /\ pc = "panicked"
    /\ last.op = "union"
    /\ last.x \in DOMAIN pre
    /\ last.y \notin DOMAIN pre

\* C10. Union is commutative in effect: the map left by union(x, y) and the
\* map union(y, x) leaves from the same start give the same partition.
UnionCommutes ==
    Returned("union") =>
        LET other == union(pre, last.y, last.x)
        IN  /\ other.ok
            /\ DOMAIN other.ds = DOMAIN disjoint_sets
            /\ \A a \in DOMAIN pre, b \in DOMAIN pre :
                  SameRep(disjoint_sets, a, b) <=> SameRep(other.ds, a, b)

\* A union whose two argument orders choose different representatives.
UnionCommutesWitness ==
    /\ Returned("union")
    /\ Root(disjoint_sets, last.x) # Root(union(pre, last.y, last.x).ds, last.x)

\* C11. Partition consistency: find(a) == find(b) is reflexive, symmetric
\* and transitive over the present elements, and a find call changes no
\* rank and no element's representative, only parent pointers on the path
\* it walked.
PartitionConsistent ==
    /\ \A a \in DOMAIN disjoint_sets : SameRep(disjoint_sets, a, a)
    /\ \A a \in DOMAIN disjoint_sets, b \in DOMAIN disjoint_sets :
          SameRep(disjoint_sets, a, b) <=> SameRep(disjoint_sets, b, a)
    /\ \A a \in DOMAIN disjoint_sets, b \in DOMAIN disjoint_sets,
          c \in DOMAIN disjoint_sets :
          (SameRep(disjoint_sets, a, b) /\ SameRep(disjoint_sets, b, c))
              => SameRep(disjoint_sets, a, c)
    /\ Returned("find") =>
          /\ DOMAIN disjoint_sets = DOMAIN pre
          /\ \A e \in DOMAIN pre :
                /\ disjoint_sets[e].rank = pre[e].rank
                /\ Root(disjoint_sets, e) = Root(pre, e)
                /\ find(disjoint_sets, e).ret = find(pre, e).ret
                /\ e \notin Path(pre, last.x) => disjoint_sets[e] = pre[e]

\* A find re-pointed an element of a set of three at the representative.
PartitionConsistentWitness ==
    /\ Returned("find")
    /\ disjoint_sets # pre
    /\ Cardinality({e \in DOMAIN pre : SameRep(pre, e, last.x)}) = 3

\* The three unions of main have returned.
ScenarioUnionsDone ==
    /\ pc = "running"
    /\ DOMAIN disjoint_sets = ScenarioElems
    /\ last = Call("union", 3, 6, NoRet) \/ last.op = "find"

\* C12. Scenario: after add(1..10), union(1,2), union(3,5), union(3,6),
\* find(5) == find(6) == find(3), find(1) == find(2), find(1) != find(5),
\* and 4, 7, 8, 9, 10 are each their own singleton set.
ScenarioPartition ==
    ScenarioUnionsDone =>
        /\ SameRep(disjoint_sets, 5, 6)
        /\ SameRep(disjoint_sets, 5, 3)
        /\ SameRep(disjoint_sets, 6, 3)
        /\ SameRep(disjoint_sets, 1, 2)
        /\ ~SameRep(disjoint_sets, 1, 5)
        /\ \A e \in {4, 7, 8, 9, 10} :
              /\ find(disjoint_sets, e).ret = e
              /\ \A o \in ScenarioElems \ {e} : ~SameRep(disjoint_sets, e, o)
        /\ (last.op = "find" /\ last.x \in {5, 6}) =>
              last.ret = find(disjoint_sets, 3).ret
        /\ (last.op = "find" /\ last.x = 1) =>
              last.ret = find(disjoint_sets, 2).ret

\* main has made its last call, find(1).
ScenarioPartitionWitness ==
    /\ ScenarioUnionsDone
    /\ last.op = "find"
    /\ last.x = 1

\* C13. add(e) of an absent element inserts exactly one record, e with
\* rank 0 and parent e, a singleton set represented by e, and leaves every
\* other record as it was.
AddInsertsSingleton ==
    (last.op = "add" /\ last.x \notin DOMAIN pre) =>
        /\ pc = "running"
        /\ DOMAIN disjoint_sets = DOMAIN pre \cup {last.x}
        /\ disjoint_sets[last.x] = Node(0, last.x)
        /\ find(disjoint_sets, last.x).ret = last.x
        /\ \A e \in DOMAIN pre :
              /\ disjoint_sets[e] = pre[e]
              /\ ~SameRep(disjoint_sets, e, last.x)

\* An absent element was added next to a set of two with a root of rank 1.
AddInsertsSingletonWitness ==
    /\ last.op = "add"
    /\ last.x \notin DOMAIN pre
    /\ \E e \in DOMAIN pre : pre[e].parent # e /\ pre[pre[e].parent].rank = 1

\* The elements whose parent pointer the last call changed.
ParentChanged == {e \in DOMAIN pre : disjoint_sets[e].parent # pre[e].parent}

\* The elements whose rank the last call changed.
RankChanged == {e \in DOMAIN pre : disjoint_sets[e].rank # pre[e].rank}

\* C14 as stated. union(x, y) changes the parent pointer of one element
\* and possibly the rank of one element, and nothing else.
UnionChangesOnePointer ==
    Returned("union") =>
        /\ DOMAIN disjoint_sets = DOMAIN pre
        /\ Cardinality(ParentChanged) <= 1
        /\ Cardinality(RankChanged) <= 1

\* C14 as amended. union(x, y) changes the rank of at most one element, a
\* root; of the parent pointers it changes, at most one is the pointer of a
\* root, set to the other root, and the others belong to elements on the
\* paths of x and y and are set to their root (path compression).
UnionChangesOneRootPointer ==
    Returned("union") =>
        LET rx == Root(pre, last.x)
            ry == Root(pre, last.y)
            onPaths == Path(pre, last.x) \cup Path(pre, last.y)
        IN  /\ DOMAIN disjoint_sets = DOMAIN pre
            /\ Cardinality(RankChanged) <= 1
            /\ RankChanged \subseteq {rx, ry}
            /\ Cardinality(ParentChanged \cap {rx, ry}) <= 1
            /\ \A e \in ParentChanged :
                  \/ e \in {rx, ry} /\ disjoint_sets[e].parent \in {rx, ry}
                  \/ /\ e \in onPaths \ {rx, ry}
                     /\ disjoint_sets[e].parent = Root(pre, e)

\* A union compressed a path and attached a root: two pointers changed.
UnionChangesOneRootPointerWitness ==
    /\ Returned("union")
    /\ Cardinality(ParentChanged) >= 2
    /\ ParentChanged \cap {Root(pre, last.x), Root(pre, last.y)} # {}

\* C15. Union by rank: a union of distinct roots rx, ry attaches ry under
\* rx when rank[rx] > rank[ry], rx under ry when rank[rx] < rank[ry], both
\* without a rank change, and on equal ranks attaches ry under rx and adds
\* exactly 1 to rank[rx]. A rank goes up only for the new root of an
\* equal-rank merge.
UnionByRank ==
    /\ (Returned("union") /\ ~SameSet(pre, last.x, last.y)) =>
          LET rx == Root(pre, last.x)
              ry == Root(pre, last.y)
          IN  /\ pre[rx].rank > pre[ry].rank =>
                    /\ disjoint_sets[ry].parent = rx
                    /\ disjoint_sets[rx].parent = rx
                    /\ RankChanged = {}
              /\ pre[rx].rank < pre[ry].rank =>
                    /\ disjoint_sets[rx].parent = ry
                    /\ disjoint_sets[ry].parent = ry
                    /\ RankChanged = {}
              /\ pre[rx].rank = pre[ry].rank =>
                    /\ disjoint_sets[ry].parent = rx
                    /\ disjoint_sets[rx].parent = rx
                    /\ disjoint_sets[rx].rank = pre[rx].rank + 1
                    /\ RankChanged = {rx}
    /\ \A e \in DOMAIN pre :
          disjoint_sets[e].rank > pre[e].rank =>
              /\ Returned("union")
              /\ ~SameSet(pre, last.x, last.y)
              /\ e = Root(pre, last.x)
              /\ pre[e].rank = pre[Root(pre, last.y)].rank
              /\ disjoint_sets[e].parent = e

\* A union attached the lower-ranked root of x under the root of y, y
\* being a non-root element.
UnionByRankWitness ==
    /\ Returned("union")
    /\ ~SameSet(pre, last.x, last.y)
    /\ pre[Root(pre, last.x)].rank < pre[Root(pre, last.y)].rank
    /\ pre[last.y].parent # last.y

\* The number of parent hops from e to the root of its tree.
Depth(ds, e) == Cardinality(Path(ds, e)) - 1

\* The roots of the forest.
Roots(ds) == {r \in DOMAIN ds : ds[r].parent = r}

\* The elements of the tree rooted at r.
TreeOf(ds, r) == {e \in DOMAIN ds : Root(ds, e) = r}

\* The height of the tree rooted at r: the largest depth of its elements.
Height(ds, r) ==
    CHOOSE h \in 0..Cardinality(DOMAIN ds) :
        /\ \E e \in TreeOf(ds, r) : Depth(ds, e) = h
        /\ \A e \in TreeOf(ds, r) : Depth(ds, e) <= h

\* C16. Rank bounds height: while no element has been added twice, the
\* rank of every root is at least the height of its tree, that is, at least
\* the depth of every element of its set.
RankBoundsHeight ==
    readds = 0 =>
        \A e \in DOMAIN disjoint_sets :
            disjoint_sets[Root(disjoint_sets, e)].rank >= Depth(disjoint_sets, e)

\* A find flattened a tree whose root has rank 2 to height 1.
RankBoundsHeightWitness ==
    /\ readds = 0
    /\ Returned("find")
    /\ disjoint_sets # pre
    /\ LET r == last.ret
       IN  /\ disjoint_sets[r].rank = 2
           /\ Height(pre, r) = 2
           /\ Height(disjoint_sets, r) = 1

\* C18. Ranks strictly increase along parent edges: while no element has
\* been added twice, every non-root element has a parent of higher rank,
\* also after the path compression of find.
RankIncreasesAlongEdges ==
    readds = 0 =>
        \A e \in DOMAIN disjoint_sets \ Roots(disjoint_sets) :
            disjoint_sets[disjoint_sets[e].parent].rank > disjoint_sets[e].rank

\* A find re-pointed an element from a parent of rank 1 to a root of rank 2.
RankIncreasesAlongEdgesWitness ==
    /\ readds = 0
    /\ Returned("find")
    /\ pre[last.x].parent # last.ret
    /\ pre[pre[last.x].parent].rank = 1
    /\ disjoint_sets[last.x].parent = last.ret
    /\ disjoint_sets[last.ret].rank = 2

RECURSIVE Pow2(_)
\* 2^k
Pow2(k) == IF k = 0 THEN 1 ELSE 2 * Pow2(k - 1)

\* C19. A root of rank k represents at least 2^k elements: while no
\* element has been added twice, every root r has at least 2^rank[r]
\* elements in its set, so with n present elements 2^rank <= n for every
\* rank.
RankBoundsSize ==
    readds = 0 =>
        /\ LET rootOf == [e \in DOMAIN disjoint_sets |-> Root(disjoint_sets, e)]
           IN  \A r \in Roots(disjoint_sets) :
                   Cardinality({e \in DOMAIN disjoint_sets : rootOf[e] = r})
                       >= Pow2(disjoint_sets[r].rank)
        /\ \A e \in DOMAIN disjoint_sets :
              Pow2(disjoint_sets[e].rank) <= Cardinality(DOMAIN disjoint_sets)

\* A union made a root of rank 2 with exactly four elements, next to a
\* root of rank 0.
RankBoundsSizeWitness ==
    /\ readds = 0
    /\ Returned("union")
    /\ \E r \in Roots(disjoint_sets), q \in Roots(disjoint_sets) :
          /\ pre[r].rank = 1
          /\ disjoint_sets[r].rank = 2
          /\ Cardinality(TreeOf(disjoint_sets, r)) = 4
          /\ disjoint_sets[q].rank = 0

\* C17. Re-adding a present element: add(e) on a present e returns and
\* overwrites e's record with rank 0 and parent e whatever it was, leaving
\* every other record, the pointers to e included, as it was.
ReaddResetsRecord ==
    \A e \in DOMAIN pre :
        Readd(e) =>
            /\ pc = "running"
            /\ DOMAIN disjoint_sets = DOMAIN pre
            /\ disjoint_sets[e] = Node(0, e)
            /\ \A o \in DOMAIN pre \ {e} : disjoint_sets[o] = pre[o]

\* A root of rank 1 with a child was added again: its rank is back to 0
\* and the child still points at it.
ReaddResetsRecordWitness ==
    \E e \in DOMAIN pre, c \in DOMAIN pre :
        /\ Readd(e)
        /\ pre[e].rank = 1
        /\ c # e
        /\ pre[c].parent = e
        /\ disjoint_sets[c].parent = e
        /\ disjoint_sets[e].rank = 0

\* C20. A failed union does not alter the partition: when union(x, y)
\* panics, the present elements, the ranks and every element's root are as
\* before the call; only parent pointers on the path of x may differ,
\* compressed by the find(x) that ran before find(y) failed.
FailedUnionKeepsPartition ==
    (last.op = "union" /\ pc = "panicked") =>
        /\ DOMAIN disjoint_sets = DOMAIN pre
        /\ last.x \notin DOMAIN pre => disjoint_sets = pre
        /\ \A e \in DOMAIN pre :
              /\ disjoint_sets[e].rank = pre[e].rank
              /\ Root(disjoint_sets, e) = Root(pre, e)
              /\ disjoint_sets[e] # pre[e] =>
                    /\ e \in Path(pre, last.x)
                    /\ disjoint_sets[e].parent = Root(pre, last.x)

\* A union of a present x with an absent y panicked after find(x) had
\* compressed the path of x.
FailedUnionKeepsPartitionWitness ==
    /\ last.op = "union"
    /\ pc = "panicked"
    /\ last.x \in DOMAIN pre
    /\ last.y \notin DOMAIN pre
    /\ disjoint_sets # pre

====
